---- MODULE Spec2Model ----
(***************************************************************************)
(* Model of "Python Scripts/TreeVisualization.py": the Weka J48 text tree  *)
(* is parsed line by line (parse_weka_j48_tree), the parent/child          *)
(* structure is rebuilt with an ancestor stack (build_tree_structure) and  *)
(* a Graphviz description is emitted (generate_dot_from_tree).             *)
(*                                                                         *)
(* A Python str is a sequence of one-character strings.  An optional value *)
(* (None or a value) is a sequence of length 0 or 1, so None is distinct   *)
(* from the empty string.  A float is its value in hundredths (5.0 is      *)
(* 500); the inputs carry at most two fractional digits.                   *)
(***************************************************************************)
EXTENDS Integers, Sequences, FiniteSets, TLC

VARIABLES tree_text, pc, run, parsed_nodes, nodes_dict, node_counter, stack,
          root_node_id, idx, dot_string, prev

vars == <<tree_text, pc, run, parsed_nodes, nodes_dict, node_counter, stack,
          root_node_id, idx, dot_string, prev>>

\* ------------------------------------------------------------ bounds
MaxLines == 4
MaxLevel == 2

\* ------------------------------------------------------------ Python values
None == <<>>
Some(v) == <<v>>

\* str.isspace() on the characters of the model's alphabet
IsSpace(c) == c \in {" ", "\t", "\n"}

\* \d of the re module
IsDigit(c) == c \in {"0", "1", "2", "3", "4", "5", "6", "7", "8", "9"}

\* [a-zA-Z0-9_.-] of the feature-name pattern, on the model's alphabet
IsNameChar(c) == IsDigit(c) \/ c \in {"A", "B", "P", "O", "S", "N", "E", "G", "X", "_", ".", "-"}

\* [<=>!] of the feature-name pattern
IsComparator(c) == c \in {"<", "=", ">", "!"}

SetMin(S) == CHOOSE m \in S : \A n \in S : m <= n
SetMax(S) == CHOOSE m \in S : \A n \in S : m >= n

\* str.strip(): drop leading and trailing whitespace
Strip(s) ==
    LET keep == {k \in 1..Len(s) : ~IsSpace(s[k])}
    IN  IF keep = {} THEN <<>> ELSE SubSeq(s, SetMin(keep), SetMax(keep))

\* str.split('\n'): the pieces between newlines; never an empty list
RECURSIVE Split(_)
Split(s) ==
    LET nl == {k \in 1..Len(s) : s[k] = "\n"}
    IN  IF nl = {} THEN <<s>>
        ELSE <<SubSeq(s, 1, SetMin(nl) - 1)>> \o Split(SubSeq(s, SetMin(nl) + 1, Len(s)))

\* str.startswith
StartsWith(s, p) == Len(s) >= Len(p) /\ SubSeq(s, 1, Len(p)) = p

\* the indentation marker '|   ' and the width removed by line[4:]
Marker == <<"|", " ", " ", " ">>
MarkerLen == 4

\* faulty variant: the level is incremented once more when the loop ends
RECURSIVE StripMarkers_offbyone(_, _)
StripMarkers_offbyone(line, level) ==
    IF StartsWith(line, Marker)
    THEN StripMarkers_offbyone(SubSeq(line, MarkerLen + 1, Len(line)), level + 1)
    ELSE [level |-> level + 1, line |-> line]

\* while line.startswith('|   '): level += 1; line = line[4:]
RECURSIVE StripMarkers(_, _)
StripMarkers(line, level) ==
    IF StartsWith(line, Marker)
    THEN StripMarkers(SubSeq(line, MarkerLen + 1, Len(line)), level + 1)
    ELSE [level |-> level, line |-> line]

\* ------------------------------------------------------------ leaf pattern
\* \d+\.?\d* against a whole string
IsNumber(x) ==
    /\ Len(x) >= 1
    /\ IsDigit(x[1])
    /\ \A k \in 1..Len(x) : IsDigit(x[k]) \/ x[k] = "."
    /\ Cardinality({k \in 1..Len(x) : x[k] = "."}) <= 1

\* number of leading characters of s that satisfy \s
RECURSIVE SkipSpaces(_)
SkipSpaces(s) == IF Len(s) > 0 /\ IsSpace(s[1]) THEN SkipSpaces(Tail(s)) ELSE s

\* faulty variant: the class alternative also takes another upper-case word
Classes_open == {<<"P", "O", "S">>, <<"N", "E", "G">>, <<"X", "O", "S">>}

\* the closed set of prediction classes, (POS|NEG)
Classes == {<<"P", "O", "S">>, <<"N", "E", "G">>}

\* faulty variant: the earlier pattern, in which the "/error" part is not optional
MatchTail_needserror(rest) ==
    LET a == SkipSpaces(rest)
        cls == IF Len(a) >= 3 THEN SubSeq(a, 1, 3) ELSE <<>>
        b == SkipSpaces(SubSeq(a, 4, Len(a)))
        inner == SubSeq(b, 2, Len(b) - 1)
        slash == {k \in 1..Len(inner) : inner[k] = "/"}
        g3 == IF slash = {} THEN inner ELSE SubSeq(inner, 1, SetMin(slash) - 1)
        g4 == IF slash = {} THEN None
              ELSE Some(SubSeq(inner, SetMin(slash) + 1, Len(inner)))
    IN  IF /\ cls \in {<<"P", "O", "S">>, <<"N", "E", "G">>}
           /\ Len(b) >= 2
           /\ b[1] = "("
           /\ b[Len(b)] = ")"
           /\ IsNumber(g3)
           /\ g4 # None
           /\ IsNumber(g4[1])
        THEN Some([g2 |-> cls, g3 |-> g3, g4 |-> g4])
        ELSE None

\* \s*(POS|NEG)\s*\((\d+\.?\d*)(?:/(\d+\.?\d*))?\)$ against the text after a ':'
\* returns None or the groups 2, 3 and 4 (group 4 None when it did not take part)
MatchTail(rest) ==
    LET a == SkipSpaces(rest)
        cls == IF Len(a) >= 3 THEN SubSeq(a, 1, 3) ELSE <<>>
        b == SkipSpaces(SubSeq(a, 4, Len(a)))
        inner == SubSeq(b, 2, Len(b) - 1)
        slash == {k \in 1..Len(inner) : inner[k] = "/"}
        g3 == IF slash = {} THEN inner ELSE SubSeq(inner, 1, SetMin(slash) - 1)
        g4 == IF slash = {} THEN None
              ELSE Some(SubSeq(inner, SetMin(slash) + 1, Len(inner)))
    IN  IF /\ cls \in Classes
           /\ Len(b) >= 2
           /\ b[1] = "("
           /\ b[Len(b)] = ")"
           /\ IsNumber(g3)
           /\ (g4 # None => IsNumber(g4[1]))
        THEN Some([g2 |-> cls, g3 |-> g3, g4 |-> g4])
        ELSE None

\* the positions of a ':' at which the whole pattern matches
ColonSplits(text) ==
    {k \in 1..Len(text) :
        /\ text[k] = ":"
        /\ \A j \in 1..(k - 1) : text[j] # "\n"
        /\ MatchTail(SubSeq(text, k + 1, Len(text))) # None}

\* re.match(r'(.*):\s*(POS|NEG)\s*\((\d+\.?\d*)(?:/(\d+\.?\d*))?\)$', node_text)
\* (.*) is greedy: group 1 ends at the last ':' that lets the rest match
LeafMatch(text) ==
    LET ks == ColonSplits(text)
        k == SetMax(ks)
        t == MatchTail(SubSeq(text, k + 1, Len(text)))[1]
    IN  IF ks = {} THEN None
        ELSE Some([g1 |-> SubSeq(text, 1, k - 1), g2 |-> t.g2, g3 |-> t.g3, g4 |-> t.g4])

\* ------------------------------------------------------------ float()
DigitChars == <<"0", "1", "2", "3", "4", "5", "6", "7", "8", "9">>
DigitVal(c) == (CHOOSE n \in 1..10 : DigitChars[n] = c) - 1

RECURSIVE DigitsVal(_)
DigitsVal(ds) ==
    IF ds = <<>> THEN 0
    ELSE 10 * DigitsVal(SubSeq(ds, 1, Len(ds) - 1)) + DigitVal(ds[Len(ds)])

\* float(x) for x matching \d+\.?\d*, in hundredths
Float(x) ==
    LET dot == {k \in 1..Len(x) : x[k] = "."}
        ip == IF dot = {} THEN x ELSE SubSeq(x, 1, SetMin(dot) - 1)
        fp == IF dot = {} THEN <<>> ELSE SubSeq(x, SetMin(dot) + 1, Len(x))
        f2 == SubSeq(fp \o <<"0", "0">>, 1, 2)
    IN  100 * DigitsVal(ip) + DigitsVal(f2)

\* ------------------------------------------------------------ parse_weka_j48_tree
\* the body of the loop over the lines, for one non-blank line
ParseLine(line0) ==
    LET sm == StripMarkers(line0, 0)
        content == Strip(sm.line)
        m == LeafMatch(content)
        leaf == m # None
    IN  [level |-> sm.level,
         text |-> IF leaf THEN Strip(m[1].g1) ELSE content,
         prediction |-> IF leaf THEN Some(m[1].g2) ELSE None,
         instances |-> IF leaf THEN Some(Float(m[1].g3)) ELSE None,
         error |-> IF ~leaf THEN None
                   ELSE IF m[1].g4 # None /\ Len(m[1].g4[1]) > 0
                        THEN Some(Float(m[1].g4[1]))
                        ELSE Some(0),
         parent_node_id |-> None,
         parent_relation |-> None,
         node_id |-> None]

\* lines = tree_text.strip().split('\n')
InputLines(text) == Split(Strip(text))

\* if not line.strip(): continue
IsBlank(line) == Strip(line) = <<>>

parse_weka_j48_tree(text) ==
    LET kept == SelectSeq(InputLines(text), LAMBDA l : ~IsBlank(l))
    IN  [k \in 1..Len(kept) |-> ParseLine(kept[k])]

\* ------------------------------------------------------------ build_tree_structure
\* faulty variant: the counter is incremented before the id is formed
NodeId_fromone(counter) == <<"N", counter + 1>>

\* faulty variant: the id does not follow the counter
NodeId_fixed(counter) == <<"N", 0>>

\* f"N{node_counter}"
NodeId(counter) == <<"N", counter>>

\* nodes_dict[node_id] = node_data: a dict keeps insertion order and one entry per key;
\* the value is a reference to the record of parsed_nodes (no copy is made)
DictSet(d, key, ref) ==
    IF \E k \in 1..Len(d) : d[k].key = key
    THEN [k \in 1..Len(d) |-> IF d[k].key = key THEN [key |-> key, ref |-> ref] ELSE d[k]]
    ELSE Append(d, [key |-> key, ref |-> ref])

\* faulty variant: "if" in place of "while", so at most one entry is popped
PopStack_one(stk, level) ==
    IF Len(stk) > 0 /\ stk[Len(stk)][2] >= level
    THEN SubSeq(stk, 1, Len(stk) - 1)
    ELSE stk

\* faulty variant: pops only the strictly deeper entries, so a sibling stays on top
RECURSIVE PopStack_strict(_, _)
PopStack_strict(stk, level) ==
    IF Len(stk) > 0 /\ stk[Len(stk)][2] > level
    THEN PopStack_strict(SubSeq(stk, 1, Len(stk) - 1), level)
    ELSE stk

\* while stack and stack[-1][1] >= node_data['level']: stack.pop()
RECURSIVE PopStack(_, _)
PopStack(stk, level) ==
    IF Len(stk) > 0 /\ stk[Len(stk)][2] >= level
    THEN PopStack(SubSeq(stk, 1, Len(stk) - 1), level)
    ELSE stk

\* faulty variant: a depth-0 record is pushed without resetting the stack
StackAfter_noreset(stk, node_id, level) ==
    Append(IF level = 0 THEN stk ELSE PopStack(stk, level), <<node_id, level>>)

\* faulty variant: the push happens only under "if stack:", so an orphan is not pushed
StackAfter_skiporphan(stk, node_id, level) ==
    IF level = 0 THEN <<<<node_id, 0>>>>
    ELSE IF PopStack(stk, level) = <<>> THEN <<>>
    ELSE Append(PopStack(stk, level), <<node_id, level>>)

\* the stack after one record: reset at level 0, else pop and push
StackAfter(stk, node_id, level) ==
    IF level = 0 THEN <<<<node_id, 0>>>>
    ELSE Append(PopStack(stk, level), <<node_id, level>>)

\* faulty variant: the pair on the stack is unpacked the wrong way round, so the
\* parent is named after the level of the stack top
ParentOf_bylevel(stk, level) ==
    IF level = 0 \/ PopStack(stk, level) = <<>> THEN None
    ELSE Some(NodeId(PopStack(stk, level)[Len(PopStack(stk, level))][2]))

\* parent_node_id of one record: the top of the popped stack, when there is one
ParentOf(stk, level) ==
    IF level = 0 \/ PopStack(stk, level) = <<>> THEN None
    ELSE Some(PopStack(stk, level)[Len(PopStack(stk, level))][1])

\* faulty variant: the label is set whether or not a parent was found
RelationOf_always(stk, data) == Some(data.text)

\* node_data['parent_relation'] = node_data['text'], only under "if stack:"
RelationOf(stk, data) ==
    IF ParentOf(stk, data.level) = None THEN None ELSE Some(data.text)

\* faulty variant: the root is recorded only while none is known yet
RootAfter_first(root, node_id, level) ==
    IF level = 0 /\ root = None THEN Some(node_id) ELSE root

\* root_node_id after one record: "root_node_id = node_id" in the level-0 branch
RootAfter(root, node_id, level) == IF level = 0 THEN Some(node_id) ELSE root

\* the value nodes_dict maps a key to (the record the reference points to)
Data(ref) == parsed_nodes[ref]

\* the node table in dict order, references resolved
NodeTable ==
    [k \in 1..Len(nodes_dict) |->
        [key |-> nodes_dict[k].key, data |-> Data(nodes_dict[k].ref)]]

\* ------------------------------------------------------------ generate_dot_from_tree
\* truth value of a str-or-None: None and '' are false
Truthy(opt) == opt # None /\ opt[1] # <<>>

RECURSIVE IntStr(_)
IntStr(n) ==
    IF n < 10 THEN <<DigitChars[n + 1]>>
    ELSE IntStr(n \div 10) \o <<DigitChars[(n % 10) + 1]>>

\* f"{x}" of a float: shortest repr, at least one fractional digit
FloatRepr(v) ==
    IntStr(v \div 100) \o <<".">> \o
    (IF v % 10 = 0 THEN IntStr((v % 100) \div 10)
     ELSE IntStr((v % 100) \div 10) \o IntStr(v % 10))

\* f"{x:.2f}"
Float2f(v) == IntStr(v \div 100) \o <<".">> \o IntStr((v % 100) \div 10) \o IntStr(v % 10)

\* re.match(r'([a-zA-Z0-9_.-]+)\s*[<=>!]+\s*(\d+\.?\d*)$', text): None or group 1
RECURSIVE TakeWhileName(_)
TakeWhileName(s) ==
    IF Len(s) > 0 /\ IsNameChar(s[1]) THEN <<s[1]>> \o TakeWhileName(Tail(s)) ELSE <<>>

RECURSIVE SkipComparators(_)
SkipComparators(s) ==
    IF Len(s) > 0 /\ IsComparator(s[1]) THEN SkipComparators(Tail(s)) ELSE s

FeatureMatch(text) ==
    LET name == TakeWhileName(text)
        a == SkipSpaces(SubSeq(text, Len(name) + 1, Len(text)))
        b == SkipComparators(a)
        c == SkipSpaces(b)
    IN  IF Len(name) >= 1 /\ Len(b) < Len(a) /\ IsNumber(c) THEN Some(name) ELSE None

\* the label inside the box of one node
NodeLabel(data) ==
    IF Truthy(data.prediction)
    THEN IF data.error # None
         THEN data.prediction[1] \o <<" ", "(">> \o FloatRepr(data.instances[1])
              \o <<"/">> \o Float2f(data.error[1]) \o <<")">>
         ELSE data.prediction[1] \o <<" ", "(">> \o FloatRepr(data.instances[1]) \o <<")">>
    ELSE IF FeatureMatch(data.text) # None THEN FeatureMatch(data.text)[1] ELSE data.text

\* faulty variant: both branches write the leaf's fill attribute
NodeFill_always(data) == Some("lightblue")

\* the fill attribute of a node declaration: only the leaf branch writes fillcolor
NodeFill(data) == IF Truthy(data.prediction) THEN Some("lightblue") ELSE None

\* one line "  <id> [label=...<, fillcolor=...>];"
NodeDecl(key, data) ==
    [kind |-> "node", id |-> key, label |-> NodeLabel(data), fillcolor |-> NodeFill(data)]

\* f"{edge_label}"
Fmt(opt) == IF opt = None THEN <<"N", "o", "n", "e">> ELSE opt[1]

\* faulty variant: the edge is written from the node to its parent
EdgeDecl_reversed(key, data) ==
    IF Truthy(data.parent_node_id)
    THEN <<[kind |-> "edge", from |-> key, to |-> data.parent_node_id[1],
            label |-> Fmt(data.parent_relation)]>>
    ELSE <<>>

\* the lines the edge loop adds for one node: "  <parent> -> <id> [label=...];"
EdgeDecl(key, data) ==
    IF Truthy(data.parent_node_id)
    THEN <<[kind |-> "edge", from |-> data.parent_node_id[1], to |-> key,
            label |-> Fmt(data.parent_relation)]>>
    ELSE <<>>

\* the four fixed lines before the declarations and the closing "}"
HeaderLen == 4
Header == [k \in 1..HeaderLen |-> [kind |-> "header", n |-> k]]
Footer == <<[kind |-> "footer"]>>

RECURSIVE Concat(_)
Concat(ss) == IF ss = <<>> THEN <<>> ELSE Head(ss) \o Concat(Tail(ss))

\* the first loop over nodes_dict.items()
NodePass(table) == [k \in 1..Len(table) |-> NodeDecl(table[k].key, table[k].data)]

\* the second loop over nodes_dict.items()
EdgePass(table) == Concat([k \in 1..Len(table) |-> EdgeDecl(table[k].key, table[k].data)])

\* faulty variant: one loop that writes each node's edge right after its declaration
generate_interleaved(root_id, table) ==
    Header
    \o Concat([k \in 1..Len(table) |->
                  <<NodeDecl(table[k].key, table[k].data)>>
                  \o EdgeDecl(table[k].key, table[k].data)])
    \o Footer

generate_dot_from_tree(root_id, table) ==
    Header \o NodePass(table) \o EdgePass(table) \o Footer

\* ------------------------------------------------------------ inputs
RECURSIVE Indent(_)
Indent(d) == IF d = 0 THEN <<>> ELSE Marker \o Indent(d - 1)

RECURSIVE Join(_)
Join(ls) ==
    IF ls = <<>> THEN <<>>
    ELSE IF Len(ls) = 1 THEN ls[1]
    ELSE ls[1] \o <<"\n">> \o Join(Tail(ls))

InternalText == <<"A", "<", "1">>
LeafText == <<"B", ":", "P", "O", "S", "(", "5", ")">>
BlankLine == <<" ">>

\* lines of a tree dump: a split condition or a leaf at any level, or a blank line
StructLines ==
    {Indent(d) \o c : d \in 0..MaxLevel, c \in {InternalText, LeafText}} \cup {BlankLine}

StructTexts == {Join(ls) : ls \in UNION {[1..n -> StructLines] : n \in 0..MaxLines}}

\* the parts a line with a leaf-like suffix is put together from
Conds == {<<"A">>, <<"A", " ">>, <<"A", ":", "P", "O", "S", "(", "5", ")">>}
Seps == {<<":">>, <<":", " ">>}
OtherClass == <<"X", "O", "S">>
ClassWords == {<<"P", "O", "S">>, <<"N", "E", "G">>, OtherClass}
Gaps == {<<>>, <<" ">>}
GoodSingle == {<<"5">>, <<"5", ".", "0">>, <<"5", ".">>}
GoodPair == {<<<<"1", "5", ".", "7">>, <<"6", ".", "1", "8">>>>, <<<<"5">>, <<"0">>>>}
BadCounts ==
    {<<"(", "5", "/", ")">>, <<"(", ".", "5", ")">>, <<"(", "5">>,
     <<"(", "1", ".", "2", ".", "3", ")">>}
GoodCounts ==
    {<<"(">> \o n \o <<")">> : n \in GoodSingle}
    \cup {<<"(">> \o p[1] \o <<"/">> \o p[2] \o <<")">> : p \in GoodPair}
Leads == {<<>>, <<" ">>}

LeafLines ==
    {l \o Indent(d) \o c \o s \o w \o g \o n \o t :
        l \in Leads, d \in 0..1, c \in Conds, s \in Seps, w \in ClassWords, g \in Gaps,
        n \in GoodCounts \cup BadCounts, t \in Leads}

\* a leaf-like line alone, or between a first line and a last line; the last line is
\* an indented condition or an indentation marker with nothing after it
LeafTexts ==
    {pre \o ln \o post :
        pre \in {<<>>, InternalText \o <<"\n">>},
        ln \in LeafLines,
        post \in {<<>>, <<"\n">> \o Indent(1) \o InternalText, <<"\n">> \o Indent(1)}}

\* ------------------------------------------------------------ the driver
InitWith(texts) ==
    /\ tree_text \in texts
    /\ pc = "start"
    /\ run = 1
    /\ parsed_nodes = <<>>
    /\ nodes_dict = <<>>
    /\ node_counter = 0
    /\ stack = <<>>
    /\ root_node_id = None
    /\ idx = 1
    /\ dot_string = <<>>
    /\ prev = [table |-> <<>>, dot |-> <<>>]

Init == InitWith(StructTexts)

InitLeaf == InitWith(LeafTexts)

\* parsed_nodes = parse_weka_j48_tree(weka_output)
Parse ==
    /\ pc = "start"
    /\ parsed_nodes' = parse_weka_j48_tree(tree_text)
    /\ pc' = "parsed"
    /\ UNCHANGED <<tree_text, run, nodes_dict, node_counter, stack, root_node_id, idx,
                   dot_string, prev>>

\* faulty variant: the counter lives outside the call and is not set back
FirstCounter_kept(old) == old

\* the counter a call of build_tree_structure starts from
FirstCounter(old) == 0

\* entry of build_tree_structure: its locals are created afresh
BuildInit ==
    /\ pc = "parsed"
    /\ nodes_dict' = <<>>
    /\ node_counter' = FirstCounter(node_counter)
    /\ stack' = <<>>
    /\ root_node_id' = None
    /\ idx' = 1
    /\ pc' = "building"
    /\ UNCHANGED <<tree_text, run, parsed_nodes, dot_string, prev>>

\* one iteration of "for i, node_data in enumerate(parsed_nodes)"
BuildStep ==
    /\ pc = "building"
    /\ idx <= Len(parsed_nodes)
    /\ LET node_data == parsed_nodes[idx]
           node_id == NodeId(node_counter)
       IN  /\ parsed_nodes' =
                [parsed_nodes EXCEPT
                    ![idx].node_id = Some(node_id),
                    ![idx].parent_node_id =
                        IF ParentOf(stack, node_data.level) = None THEN @
                        ELSE ParentOf(stack, node_data.level),
                    ![idx].parent_relation =
                        IF RelationOf(stack, node_data) = None THEN @
                        ELSE RelationOf(stack, node_data)]
           /\ nodes_dict' = DictSet(nodes_dict, node_id, idx)
           /\ node_counter' = node_counter + 1
           /\ root_node_id' = RootAfter(root_node_id, node_id, node_data.level)
           /\ stack' = StackAfter(stack, node_id, node_data.level)
    /\ idx' = idx + 1
    /\ UNCHANGED <<tree_text, pc, run, dot_string, prev>>

\* return root_node_id, nodes_dict
BuildReturn ==
    /\ pc = "building"
    /\ idx > Len(parsed_nodes)
    /\ pc' = "built"
    /\ UNCHANGED <<tree_text, run, parsed_nodes, nodes_dict, node_counter, stack,
                   root_node_id, idx, dot_string, prev>>

\* dot_output = generate_dot_from_tree(root_id, nodes_dict)
Generate ==
    /\ pc = "built"
    /\ dot_string' = generate_dot_from_tree(root_node_id, NodeTable)
    /\ pc' = "done"
    /\ UNCHANGED <<tree_text, run, parsed_nodes, nodes_dict, node_counter, stack,
                   root_node_id, idx, prev>>

\* the three steps of the driver are run once more on the same text; the results of
\* the first run are kept aside for comparison
Rerun ==
    /\ pc = "done"
    /\ run = 1
    /\ prev' = [table |-> NodeTable, dot |-> dot_string]
    /\ run' = 2
    /\ pc' = "start"
    /\ UNCHANGED <<tree_text, parsed_nodes, nodes_dict, node_counter, stack,
                   root_node_id, idx, dot_string>>

\* one run of the driver
Next == Parse \/ BuildInit \/ BuildStep \/ BuildReturn \/ Generate

\* the driver run twice on the same text
NextTwice == Next \/ Rerun

Spec == Init /\ [][Next]_vars

SpecLeaf == InitLeaf /\ [][Next]_vars

SpecTwice == Init /\ [][NextTwice]_vars

\* ------------------------------------------------------------ properties
\* the records build_tree_structure has processed so far
Processed == IF pc \in {"building", "built", "done"} THEN 1..(idx - 1) ELSE {}

Level(k) == parsed_nodes[k].level

\* the records before k, in input order, of strictly smaller depth
PrecedingSmaller(k) == {j \in 1..(k - 1) : Level(j) < Level(k)}

\* the records before k of depth 0
PrecedingRoots(k) == {j \in 1..(k - 1) : Level(j) = 0}

\* the table entries whose key is the given id
EntriesOf(id) == {e \in 1..Len(nodes_dict) : nodes_dict[e].key = id}

\* a record of depth > 0 with no record of smaller depth before it
IsOrphan(k) == Level(k) > 0 /\ PrecedingSmaller(k) = {}

\* the lines of the raw text that are not empty or whitespace-only
NonBlankLines(text) == {k \in 1..Len(Split(text)) : \E c \in 1..Len(Split(text)[k]) : ~IsSpace(Split(text)[k][c])}

DeclsOfKind(kind) == {k \in 1..Len(dot_string) : dot_string[k].kind = kind}

\* C1: every processed record of depth > 0 that has a preceding record of strictly
\* smaller depth has the LATEST such record as its parent, and the node the table
\* holds under the parent's id has a strictly smaller depth.
C1_NearestSmallerParent ==
    \A k \in Processed :
        (Level(k) > 0 /\ PrecedingSmaller(k) # {}) =>
            /\ parsed_nodes[k].parent_node_id # None
            /\ parsed_nodes[k].parent_node_id = parsed_nodes[SetMax(PrecedingSmaller(k))].node_id
            /\ EntriesOf(parsed_nodes[k].parent_node_id[1]) # {}
            /\ \A e \in EntriesOf(parsed_nodes[k].parent_node_id[1]) :
                   Data(nodes_dict[e].ref).level < Level(k)

\* C1 witness: reconstruction has ended on an input with two depth-0 records, a depth
\* jump of more than one level, and a record whose latest shallower predecessor is
\* neither its only shallower predecessor nor the record right before it.
C1_Witness ==
    /\ pc = "built"
    /\ Cardinality({k \in Processed : Level(k) = 0}) >= 2
    /\ \E k \in Processed : k > 1 /\ Level(k) > Level(k - 1) + 1
    /\ \E k \in Processed :
           /\ Cardinality(PrecedingSmaller(k)) >= 2
           /\ SetMax(PrecedingSmaller(k)) < k - 1

\* C2: once the output is produced, the number of node declarations equals the number
\* of non-blank lines of the input text, and the node table holds one entry per
\* parsed record, each record under its own key.
C2_OneDeclPerLine ==
    pc = "done" =>
        /\ Cardinality(DeclsOfKind("node")) = Cardinality(NonBlankLines(tree_text))
        /\ Len(parsed_nodes) = Cardinality(NonBlankLines(tree_text))
        /\ Len(nodes_dict) = Len(parsed_nodes)
        /\ \A k \in 1..Len(parsed_nodes) :
               Cardinality({e \in 1..Len(nodes_dict) : nodes_dict[e].ref = k}) = 1

\* C2 witness: output produced for a text with a blank line between non-blank lines.
C2_Witness ==
    /\ pc = "done"
    /\ Cardinality(DeclsOfKind("node")) >= 2
    /\ \E k \in 2..(Len(Split(tree_text)) - 1) :
           /\ k \notin NonBlankLines(tree_text)
           /\ k - 1 \in NonBlankLines(tree_text)
           /\ k + 1 \in NonBlankLines(tree_text)

\* C3: every processed depth-0 record is in the table under its own id, as a distinct
\* entry, with no parent; right after a depth-0 record the stack holds only that
\* record; and no record has a parent that precedes the latest depth-0 record
\* before it.
C3_ForestRoots ==
    /\ \A k \in Processed :
           Level(k) = 0 =>
               /\ parsed_nodes[k].parent_node_id = None
               /\ parsed_nodes[k].node_id # None
               /\ Cardinality(EntriesOf(parsed_nodes[k].node_id[1])) = 1
               /\ \A e \in EntriesOf(parsed_nodes[k].node_id[1]) : nodes_dict[e].ref = k
    /\ \A k \in Processed :
           (Level(k) = 0 /\ k = idx - 1) =>
               stack = <<<<parsed_nodes[k].node_id[1], 0>>>>
    /\ \A k \in Processed :
           (parsed_nodes[k].parent_node_id # None /\ PrecedingRoots(k) # {}) =>
               \A j \in 1..(SetMax(PrecedingRoots(k)) - 1) :
                   parsed_nodes[j].node_id # parsed_nodes[k].parent_node_id

\* C3 witness: reconstruction has ended on an input with two depth-0 records, the
\* second of which has a child.
C3_Witness ==
    /\ pc = "built"
    /\ \E a, b, c \in Processed :
           /\ a < b /\ b < c
           /\ Level(a) = 0 /\ Level(b) = 0
           /\ parsed_nodes[c].parent_node_id = parsed_nodes[b].node_id

\* the two-record input: a depth-0 split condition, then a depth-1 leaf
TwoRecordText == Join(<<InternalText, Indent(1) \o LeafText>>)

\* C4: in the output there is exactly one edge declaration for every node with a
\* parent and none for a node without one; the edge goes from the parent's id to the
\* node's id and is labelled with the node's own text.  The two-record input gives
\* 2 node declarations and the single edge N0 -> N1.
C4_EdgePerChild ==
    pc = "done" =>
        /\ \A e \in 1..Len(nodes_dict) :
               LET data == Data(nodes_dict[e].ref)
                   mine == {k \in DeclsOfKind("edge") : dot_string[k].to = nodes_dict[e].key}
               IN  IF data.parent_node_id = None
                   THEN mine = {}
                   ELSE /\ Cardinality(mine) = 1
                        /\ \A k \in mine :
                               /\ dot_string[k].from = data.parent_node_id[1]
                               /\ dot_string[k].label = data.text
        /\ Cardinality(DeclsOfKind("edge")) =
               Cardinality({e \in 1..Len(nodes_dict) :
                               Data(nodes_dict[e].ref).parent_node_id # None})
        /\ tree_text = TwoRecordText =>
               /\ Cardinality(DeclsOfKind("node")) = 2
               /\ Cardinality(DeclsOfKind("edge")) = 1
               /\ \A k \in DeclsOfKind("edge") :
                      /\ dot_string[k].from = <<"N", 0>>
                      /\ dot_string[k].to = <<"N", 1>>
                      /\ dot_string[k].label = <<"B">>

\* C4 witness: the output for the two-record input.
C4_Witness == pc = "done" /\ tree_text = TwoRecordText /\ DeclsOfKind("edge") # {}

\* C5: after reconstruction every node of the table has an edge label exactly when
\* it has a parent, and the label equals the node's own text.
C5_LabelMirrorsText ==
    pc \in {"built", "done"} =>
        \A e \in 1..Len(nodes_dict) :
            LET data == Data(nodes_dict[e].ref)
            IN  /\ (data.parent_relation # None) <=> (data.parent_node_id # None)
                /\ data.parent_relation # None => data.parent_relation = Some(data.text)

\* C5 witness: a table with a node that has a parent and a label, and a parentless
\* node of depth > 0.
C5_Witness ==
    /\ pc = "built"
    /\ \E e \in 1..Len(nodes_dict) : Data(nodes_dict[e].ref).parent_relation # None
    /\ \E k \in Processed : IsOrphan(k) /\ parsed_nodes[k].parent_relation = None

\* C6: a record of depth > 0 with no shallower record before it is kept: it has an
\* id and its own table entry, no parent and no edge label; right after it the stack
\* ends with it; the next record, when deeper, takes it as parent; and reconstruction
\* ends with every record in the table.
C6_OrphanKept ==
    /\ \A k \in Processed :
           IsOrphan(k) =>
               /\ parsed_nodes[k].node_id # None
               /\ \E e \in 1..Len(nodes_dict) : nodes_dict[e].ref = k
               /\ parsed_nodes[k].parent_node_id = None
               /\ parsed_nodes[k].parent_relation = None
               /\ (k = idx - 1 /\ pc = "building") =>
                      (stack # <<>> /\ stack[Len(stack)] = <<parsed_nodes[k].node_id[1], Level(k)>>)
               /\ (k + 1 \in Processed /\ Level(k + 1) > Level(k)) =>
                      parsed_nodes[k + 1].parent_node_id = parsed_nodes[k].node_id
    /\ pc = "built" => Len(nodes_dict) = Len(parsed_nodes)

\* C6 witness: reconstruction has ended, an orphan record is not the last record and
\* a later record has it as parent.
C6_Witness ==
    /\ pc = "built"
    /\ \E k, j \in Processed :
           /\ IsOrphan(k)
           /\ k < j
           /\ parsed_nodes[j].parent_node_id = parsed_nodes[k].node_id

\* the trimmed content of the line record k was parsed from
Content(k) ==
    Strip(StripMarkers(SelectSeq(InputLines(tree_text), LAMBDA l : ~IsBlank(l))[k], 0).line)

\* the count strings of the inputs with the numbers they denote, in hundredths
SingleValues == {<<<<"5">>, 500>>, <<<<"5", ".", "0">>, 500>>, <<<<"5", ".">>, 500>>}
PairValues ==
    {<<<<"1", "5", ".", "7">>, 1570, <<"6", ".", "1", "8">>, 618>>,
     <<<<"5">>, 500, <<"0">>, 0>>}
LeafClasses == {<<"P", "O", "S">>, <<"N", "E", "G">>}

\* content of the form '<condition>: <CLASS> (<instances>)'
ShortForm(cond, cls, n) == cond \o <<":", " ">> \o cls \o <<" ", "(">> \o n \o <<")">>

\* content of the form '<condition>: <CLASS> (<instances>/<error>)'
LongForm(cond, cls, n, e) ==
    cond \o <<":", " ">> \o cls \o <<" ", "(">> \o n \o <<"/">> \o e \o <<")">>

\* the fields of record k are those of a leaf with the given text, class and counts
IsLeafRecord(k, text, cls, inst, err) ==
    /\ parsed_nodes[k].text = text
    /\ parsed_nodes[k].prediction = Some(cls)
    /\ parsed_nodes[k].instances = Some(inst)
    /\ parsed_nodes[k].error = Some(err)

\* prediction, instances and error are all set or all absent
AllOrNone(k) ==
    \/ /\ parsed_nodes[k].prediction # None
       /\ parsed_nodes[k].instances # None
       /\ parsed_nodes[k].error # None
    \/ /\ parsed_nodes[k].prediction = None
       /\ parsed_nodes[k].instances = None
       /\ parsed_nodes[k].error = None

\* C7 as stated: a line of either leaf form yields a leaf record whose text is
\* everything before the final ':', with the class, the instance count and the error
\* count (0.0 in the short form); and every record has all three leaf fields or none.
C7_TextBeforeColon ==
    pc = "parsed" =>
        \A k \in 1..Len(parsed_nodes) :
            LET content == Content(k)
            IN  /\ AllOrNone(k)
                /\ \A cond \in Conds, cls \in LeafClasses :
                       /\ \A n \in SingleValues :
                              content = ShortForm(cond, cls, n[1]) =>
                                  IsLeafRecord(k, cond, cls, n[2], 0)
                       /\ \A p \in PairValues :
                              content = LongForm(cond, cls, p[1], p[3]) =>
                                  IsLeafRecord(k, cond, cls, p[2], p[4])

\* C7 amended: as above, but the text is everything before the final ':' with its
\* surrounding whitespace removed.
C7_LeafForms ==
    pc = "parsed" =>
        \A k \in 1..Len(parsed_nodes) :
            LET content == Content(k)
            IN  /\ AllOrNone(k)
                /\ \A cond \in Conds, cls \in LeafClasses :
                       /\ \A n \in SingleValues :
                              content = ShortForm(cond, cls, n[1]) =>
                                  IsLeafRecord(k, Strip(cond), cls, n[2], 0)
                       /\ \A p \in PairValues :
                              content = LongForm(cond, cls, p[1], p[3]) =>
                                  IsLeafRecord(k, Strip(cond), cls, p[2], p[4])

\* C7 witness: a parsed short-form leaf line whose condition ends with a space; its
\* record is a leaf with error 0.0 and the trimmed condition as text.
C7_Witness ==
    /\ pc = "parsed"
    /\ \E k \in 1..Len(parsed_nodes) :
           /\ Content(k) = ShortForm(<<"A", " ">>, <<"N", "E", "G">>, <<"5", ".", "0">>)
           /\ parsed_nodes[k].error = Some(0)
           /\ parsed_nodes[k].text = <<"A">>

\* the content of a line put together from a condition, a separator, a class word,
\* a gap and a count clause
LeafLike(cond, sep, w, g, n) == cond \o sep \o w \o g \o n

\* C8: a line whose class word is outside {POS, NEG} or whose count clause is
\* malformed yields an internal record whose text is the whole trimmed content, with
\* prediction, instances and error absent; and every non-blank line of the text,
\* before and after it, has its record.
C8_FallbackInternal ==
    pc = "parsed" =>
        /\ Len(parsed_nodes) = Cardinality(NonBlankLines(tree_text))
        /\ \A k \in 1..Len(parsed_nodes) :
               LET content == Content(k)
               IN  \A cond \in Conds, sep \in Seps, w \in ClassWords, g \in Gaps,
                      n \in GoodCounts \cup BadCounts :
                       ((w = OtherClass \/ n \in BadCounts)
                        /\ content = LeafLike(cond, sep, w, g, n)) =>
                           /\ parsed_nodes[k].text = LeafLike(cond, sep, w, g, n)
                           /\ parsed_nodes[k].prediction = None
                           /\ parsed_nodes[k].instances = None
                           /\ parsed_nodes[k].error = None

\* C8 witness: three lines are parsed and the middle one has a well-formed count
\* clause after a class word outside the closed set.
C8_Witness ==
    /\ pc = "parsed"
    /\ Len(parsed_nodes) = 3
    /\ \E n \in GoodCounts :
           /\ Content(2) = LeafLike(<<"A">>, <<":", " ">>, OtherClass, <<" ">>, n)
           /\ parsed_nodes[2].prediction = None

\* C9: the output is the header, then one node declaration per table entry in table
\* order (which is the order of the input lines), then the edge declarations in the
\* table order of their child, then the footer as the last line.
C9_TwoPasses ==
    pc = "done" =>
        LET n == Len(nodes_dict)
            edges == DeclsOfKind("edge")
        IN  /\ Len(dot_string) = HeaderLen + n + Cardinality(edges) + 1
            /\ \A k \in 1..HeaderLen : dot_string[k].kind = "header"
            /\ \A k \in 1..n :
                   /\ dot_string[HeaderLen + k].kind = "node"
                   /\ dot_string[HeaderLen + k].id = nodes_dict[k].key
                   /\ nodes_dict[k].ref = k
            /\ \A k \in (HeaderLen + n + 1)..(Len(dot_string) - 1) :
                   dot_string[k].kind = "edge"
            /\ dot_string[Len(dot_string)].kind = "footer"
            /\ \A a, b \in edges :
                   a < b =>
                       \A ea \in EntriesOf(dot_string[a].to), eb \in EntriesOf(dot_string[b].to) :
                           ea < eb

\* C9 witness: an output with at least two edges, whose first child has a later
\* sibling or root between it and the end of the table.
C9_Witness ==
    /\ pc = "done"
    /\ Cardinality(DeclsOfKind("edge")) >= 2
    /\ Len(nodes_dict) >= 4
    /\ Data(nodes_dict[2].ref).parent_node_id # None
    /\ Data(nodes_dict[3].ref).parent_node_id = None

\* C10: the second run on the same text ends with the node table and the output of
\* the first run; it parses fresh records and starts reconstruction from counter 0,
\* an empty stack and an empty table.
C10_SecondRunSame ==
    /\ (run = 2 /\ pc = "done") => (NodeTable = prev.table /\ dot_string = prev.dot)
    /\ (run = 2 /\ pc = "parsed") =>
           \A k \in 1..Len(parsed_nodes) :
               /\ parsed_nodes[k].node_id = None
               /\ parsed_nodes[k].parent_node_id = None
               /\ parsed_nodes[k].parent_relation = None
    /\ (run = 2 /\ pc = "building" /\ idx = 1) =>
           (node_counter = 0 /\ stack = <<>> /\ nodes_dict = <<>>)

\* C10 witness: the second run has ended on a text with four records, one of them a
\* child, after a first run that left its counter, stack and table behind.
C10_Witness ==
    /\ run = 2
    /\ pc = "done"
    /\ Len(prev.table) = 4
    /\ \E e \in 1..Len(nodes_dict) : Data(nodes_dict[e].ref).parent_node_id # None
    /\ \E k \in 1..Len(prev.dot) : prev.dot[k].kind = "edge"

\* the root identifiers build_tree_structure returns, as a collection
ReturnedRoots == IF root_node_id = None THEN {} ELSE {root_node_id[1]}

\* the records of depth 0
RootRecords == {k \in 1..Len(parsed_nodes) : Level(k) = 0}

\* C11 as stated, for an input that has a depth-0 node: what build_tree_structure
\* returns beside the node table holds the id of every depth-0 node of the input and
\* has at least one element.
C11_AllRootsReturned ==
    (pc = "built" /\ RootRecords # {}) =>
        /\ \A k \in RootRecords : parsed_nodes[k].node_id[1] \in ReturnedRoots
        /\ ReturnedRoots # {}

\* C11 amended: build_tree_structure returns one root identifier, the id of the LAST
\* depth-0 record of the input, and None when the input has no depth-0 record.
C11_LastRootReturned ==
    pc = "built" =>
        IF RootRecords = {}
        THEN root_node_id = None
        ELSE root_node_id = parsed_nodes[SetMax(RootRecords)].node_id

\* C11 witness: reconstruction has returned on an input with two depth-0 records and
\* a deeper record after the second one.
C11_Witness ==
    /\ pc = "built"
    /\ Cardinality(RootRecords) = 2
    /\ SetMax(RootRecords) < Len(parsed_nodes)
    /\ root_node_id = parsed_nodes[SetMax(RootRecords)].node_id

\* the non-blank lines of the raw text, in input order
RawKept(text) == SelectSeq(Split(text), LAMBDA l : \E c \in 1..Len(l) : ~IsSpace(l[c]))

\* a line without the whitespace before its first other character
LStrip(l) ==
    LET keep == {c \in 1..Len(l) : ~IsSpace(l[c])}
    IN  IF keep = {} THEN <<>> ELSE SubSeq(l, SetMin(keep), Len(l))

\* C12 as stated: when the input gives at least one node, the first node of the table,
\* which is the first node declared in the output, has depth 0.
C12_FirstNodeDepthZero ==
    (pc \in {"built", "done"} /\ Len(nodes_dict) >= 1) =>
        Data(nodes_dict[1].ref).level = 0

\* C12 amended: when the first non-blank line of the input, the whitespace before it
\* aside, does not begin with the indentation marker, the first node of the table is
\* N0, has depth 0 and is the first node declared in the output.
C12_FirstNodeOfUnindentedLine ==
    (pc \in {"built", "done"} /\ RawKept(tree_text) # <<>>
     /\ ~StartsWith(LStrip(RawKept(tree_text)[1]), Marker)) =>
        /\ Len(nodes_dict) >= 1
        /\ nodes_dict[1].key = <<"N", 0>>
        /\ Data(nodes_dict[1].ref).level = 0
        /\ pc = "done" => dot_string[HeaderLen + 1].id = <<"N", 0>>

\* C12 witness: the output for a text whose first line begins with whitespace and
\* then a character other than '|'; its first node has depth 0.
C12_Witness ==
    /\ pc = "done"
    /\ IsSpace(tree_text[1])
    /\ tree_text[2] = "A"
    /\ Data(nodes_dict[1].ref).level = 0

\* the k-th record of the input, k counted from 0, has the id N<k>, and the keys of
\* the table are pairwise distinct
IdsFollowOrder ==
    /\ \A k \in Processed : parsed_nodes[k].node_id = Some(<<"N", k - 1>>)
    /\ \A k \in 1..Len(parsed_nodes) : k \notin Processed => parsed_nodes[k].node_id = None
    /\ \A a, b \in 1..Len(nodes_dict) : a # b => nodes_dict[a].key # nodes_dict[b].key

\* a step leaves every id already assigned, and every key of the table, as it is
IdsKept ==
    /\ \A k \in 1..Len(parsed_nodes) :
           parsed_nodes[k].node_id # None =>
               /\ Len(parsed_nodes') >= k
               /\ parsed_nodes'[k].node_id = parsed_nodes[k].node_id
    /\ \A e \in 1..Len(nodes_dict) :
           /\ Len(nodes_dict') >= e
           /\ nodes_dict'[e] = nodes_dict[e]

\* C13: in every state of a run the k-th record (k from 0) that reconstruction has
\* reached has the id N<k> and no two table entries share a key; and no step of
\* reconstruction or emission changes an id once it is assigned.
C13_IdsStable == [](IdsFollowOrder) /\ [][IdsKept]_vars

\* C13 witness: the output is produced for four records whose ids are N0..N3, the
\* last of them assigned three steps of reconstruction after the first.
C13_Witness ==
    /\ pc = "done"
    /\ Len(nodes_dict) = 4
    /\ \A k \in 1..4 : nodes_dict[k].key = <<"N", k - 1>> /\ nodes_dict[k].ref = k

EndsWith(s, x) == Len(s) >= Len(x) /\ SubSeq(s, Len(s) - Len(x) + 1, Len(s)) = x

\* the content ends with a condition, a ':', a class of the closed set and a
\* well-formed count clause: the lines the leaf pattern is written for
IsLeafContent(content) ==
    \E cond \in Conds, sep \in Seps, w \in LeafClasses, g \in Gaps, n \in GoodCounts :
        EndsWith(content, LeafLike(cond, sep, w, g, n))

\* C14: in the output, the declaration of a node carries fillcolor=lightblue exactly
\* when the node's line is a leaf line, which is exactly when its record has a
\* prediction; the declaration of any other node carries no fill attribute.
C14_FillMarksLeaves ==
    pc = "done" =>
        \A e \in 1..Len(nodes_dict) :
            LET decl == dot_string[HeaderLen + e]
                leaf == IsLeafContent(Content(nodes_dict[e].ref))
            IN  /\ decl.kind = "node"
                /\ decl.id = nodes_dict[e].key
                /\ leaf <=> Data(nodes_dict[e].ref).prediction # None
                /\ leaf <=> decl.fillcolor = Some("lightblue")
                /\ ~leaf => decl.fillcolor = None

\* C14 witness: an output with three declarations, of which only the middle one, a
\* leaf, carries the fill attribute.
C14_Witness ==
    /\ pc = "done"
    /\ Len(nodes_dict) = 3
    /\ dot_string[HeaderLen + 1].fillcolor = None
    /\ dot_string[HeaderLen + 2].fillcolor = Some("lightblue")
    /\ dot_string[HeaderLen + 3].fillcolor = None

\* the number of consecutive indentation markers a line begins with
MarkerCount(line) == SetMax({n \in 0..Len(line) : StartsWith(line, Indent(n))})

\* what follows the markers a line begins with
AfterMarkers(line) == SubSeq(line, MarkerLen * MarkerCount(line) + 1, Len(line))

\* C15: every non-blank line of the text has its record; the record's depth is the
\* number of consecutive indentation markers at the start of the line, and its
\* content is what follows them, trimmed (for a leaf, the text is the beginning of
\* that content).
C15_DepthIsMarkerCount ==
    pc = "parsed" =>
        /\ Len(parsed_nodes) = Len(RawKept(tree_text))
        /\ \A k \in 1..Len(parsed_nodes) :
               LET line == RawKept(tree_text)[k]
               IN  /\ parsed_nodes[k].level = MarkerCount(line)
                   /\ IF parsed_nodes[k].prediction = None
                      THEN parsed_nodes[k].text = Strip(AfterMarkers(line))
                      ELSE StartsWith(Strip(AfterMarkers(line)), parsed_nodes[k].text)

\* the records whose id is the given one
RecordsOf(id) == {k \in 1..Len(parsed_nodes) : parsed_nodes[k].node_id = Some(id)}

\* C16: after each record build_tree_structure has processed, the stack is not
\* empty, its top is that record with its depth, the depths on it increase strictly
\* from bottom to top, and every entry above the bottom one is a record whose parent
\* is the entry directly below.
C16_StackIsParentChain ==
    (pc = "building" /\ idx > 1) =>
        /\ stack # <<>>
        /\ stack[Len(stack)] = <<parsed_nodes[idx - 1].node_id[1], Level(idx - 1)>>
        /\ \A i \in 2..Len(stack) : stack[i - 1][2] < stack[i][2]
        /\ \A i \in 1..Len(stack) :
               /\ RecordsOf(stack[i][1]) # {}
               /\ \A k \in RecordsOf(stack[i][1]) :
                      /\ Level(k) = stack[i][2]
                      /\ i > 1 => parsed_nodes[k].parent_node_id = Some(stack[i - 1][1])

\* C16 witness: the fourth record has been processed, an entry was popped for it and
\* the stack holds a chain of three.
C16_Witness ==
    /\ pc = "building"
    /\ idx = 5
    /\ Len(stack) = 3
    /\ stack[3][1] = <<"N", 3>>
    /\ stack[2][1] = <<"N", 1>>

\* C17: every parent_node_id is the id of a record created strictly earlier that has
\* its entry in the table; in the output every edge joins two declared nodes, goes
\* from an earlier entry of the table to a later one (so there is no self-loop and
\* no cycle), and no node has two incoming edges.
C17_ParentsAreEarlierNodes ==
    /\ \A k \in Processed :
           parsed_nodes[k].parent_node_id # None =>
               /\ \E j \in 1..(k - 1) : parsed_nodes[j].node_id = parsed_nodes[k].parent_node_id
               /\ \A j \in k..Len(parsed_nodes) :
                      parsed_nodes[j].node_id # parsed_nodes[k].parent_node_id
               /\ \E e \in EntriesOf(parsed_nodes[k].parent_node_id[1]) : nodes_dict[e].ref < k
    /\ pc = "done" =>
           /\ \A a \in DeclsOfKind("edge") :
                  /\ \E n \in DeclsOfKind("node") : dot_string[n].id = dot_string[a].from
                  /\ \E n \in DeclsOfKind("node") : dot_string[n].id = dot_string[a].to
                  /\ \A ef \in EntriesOf(dot_string[a].from), et \in EntriesOf(dot_string[a].to) :
                         ef < et
           /\ \A a, b \in DeclsOfKind("edge") :
                  dot_string[a].to = dot_string[b].to => a = b

\* C17 witness: an output with three edges, two of them from the same parent.
C17_Witness ==
    /\ pc = "done"
    /\ Cardinality(DeclsOfKind("edge")) = 3
    /\ \E a, b \in DeclsOfKind("edge") : a # b /\ dot_string[a].from = dot_string[b].from

====
